---- MODULE Spec2Model ----
(***************************************************************************)
(* A model of textual's Compositor (src/src/textual/_compositor.py): the   *)
(* arrangement of a widget tree into a region map, the cut lists, the      *)
(* front-to-back render, partial updates and the reflow diff.              *)
(*                                                                         *)
(* A Region is a record [x, y, width, height], a Size [width, height], an  *)
(* Offset [x, y].  A Segment is a sequence of cells, a cell <<w, col, row>>*)
(* being cell col of row `row` of widget w's own lines (its style stands   *)
(* for the widget); a line is a sequence of Segments.                      *)
(***************************************************************************)
EXTENDS Integers, Sequences, FiniteSets, TLC

VARIABLES
    map,              \* Compositor.map: a dict, kept as the sequence of its items in insertion order
    widgets,          \* Compositor.widgets
    root,             \* Compositor.root
    size,             \* Compositor.size
    regions,          \* Compositor.regions: widget -> [region, clip]
    _cuts,            \* Compositor._cuts: None or the cached cut lists
    _require_update,  \* Compositor._require_update
    wsize,            \* widget.size of every widget
    visible,          \* widget.visible of every widget
    transparent,      \* widget.is_transparent of every widget
    ret               \* what the most recent call returned (or that it raised)

vars == <<map, widgets, root, size, regions, _cuts, _require_update,
          wsize, visible, transparent, ret>>

\* Python's None and a present value: an optional value is None or Some(v)
None == <<>>
Some(v) == <<v>>
Value(o) == o[1]

---------------------------------------------------------------------------
(* Bounds of the model.                                                    *)

MaxW == 3      \* width of the larger screen / root size
MaxH == 2      \* height of the larger screen / root size
MaxZ == 1      \* placements carry z 0 or MaxZ
MaxShift == 1  \* style offsets and scroll offsets are 0 or MaxShift cells in x

---------------------------------------------------------------------------
(* Geometry primitives (textual.geometry).                                 *)

Min(a, b) == IF a < b THEN a ELSE b
Max(a, b) == IF a > b THEN a ELSE b

Region(x, y, w, h) == [x |-> x, y |-> y, width |-> w, height |-> h]
Size(w, h) == [width |-> w, height |-> h]
Offset(x, y) == [x |-> x, y |-> y]
ORIGIN == Offset(0, 0)

\* Size.region
SizeRegion(s) == Region(0, 0, s.width, s.height)
\* Region.size
RegionSize(r) == Size(r.width, r.height)
\* Region.origin
RegionOrigin(r) == Offset(r.x, r.y)
\* Region.__bool__ / Size.__bool__: false when there is no area
NonEmpty(r) == r.width # 0 /\ r.height # 0
\* Region + Offset, Region - Offset
Translate(r, o) == Region(r.x + o.x, r.y + o.y, r.width, r.height)
TranslateBack(r, o) == Region(r.x - o.x, r.y - o.y, r.width, r.height)

Clamp(v, lo, hi) == IF v > hi THEN hi ELSE IF v < lo THEN lo ELSE v

\* Region.intersection: every corner of r clamped into c
Intersection(r, c) ==
    LET x1 == Clamp(r.x, c.x, c.x + c.width)
        y1 == Clamp(r.y, c.y, c.y + c.height)
        x2 == Clamp(r.x + r.width, c.x, c.x + c.width)
        y2 == Clamp(r.y + r.height, c.y, c.y + c.height)
    IN  Region(x1, y1, x2 - x1, y2 - y1)

\* Region.union: the bounding box
Union(r, o) ==
    LET x1 == Min(r.x, o.x)
        y1 == Min(r.y, o.y)
        x2 == Max(r.x + r.width, o.x + o.width)
        y2 == Max(r.y + r.height, o.y + o.height)
    IN  Region(x1, y1, x2 - x1, y2 - y1)

\* Region.contains(x, y)
Contains(r, x, y) ==
    /\ r.x <= x /\ x < r.x + r.width
    /\ r.y <= y /\ y < r.y + r.height

\* `inner in outer` (Region.contains_region): both corners within outer, bounds included
RegionIn(inner, outer) ==
    /\ outer.x <= inner.x /\ inner.x <= outer.x + outer.width
    /\ outer.y <= inner.y /\ inner.y <= outer.y + outer.height
    /\ outer.x <= inner.x + inner.width /\ inner.x + inner.width <= outer.x + outer.width
    /\ outer.y <= inner.y + inner.height /\ inner.y + inner.height <= outer.y + outer.height

\* Region.overlaps: the two regions share a cell
Overlaps(c, r) == NonEmpty(Intersection(r, c))

---------------------------------------------------------------------------
(* Segments and lines (rich.segment).                                      *)

\* Python's s[:n] and s[n:] on a sequence (n may be negative)
PyIndex(s, n) == IF n < 0 THEN Max(Len(s) + n, 0) ELSE Min(n, Len(s))
PyTake(s, n) == SubSeq(s, 1, PyIndex(s, n))
PyDrop(s, n) == SubSeq(s, PyIndex(s, n) + 1, Len(s))
\* Python's s[i:j]
PySlice(s, i, j) == SubSeq(s, PyIndex(s, i) + 1, PyIndex(s, j))

RECURSIVE Concat(_)
\* sum(lists, start=[])
Concat(ss) == IF ss = <<>> THEN <<>> ELSE Head(ss) \o Concat(Tail(ss))

\* the cells of a line, in order; its length is the line's total cell length
Cells(line) == Concat(line)
CellLength(line) == Len(Cells(line))

RECURSIVE SkipZeroCuts(_, _)
\* Segment.divide, first loop: one empty list is yielded for every leading cut 0
SkipZeroCuts(cuts, out) ==
    IF cuts # <<>> /\ Head(cuts) = 0
    THEN SkipZeroCuts(Tail(cuts), Append(out, <<>>))
    ELSE [cuts |-> cuts, out |-> out]

RECURSIVE DivideNext(_, _, _, _, _)
RECURSIVE DivideSegment(_, _, _, _, _, _)
\* Segment.divide, `for segment in segments`: the next segment, or the final yield
DivideNext(rest, pos, cuts, split, out) ==
    IF rest = <<>>
    THEN Append(out, split)
    ELSE DivideSegment(Head(rest), Tail(rest), pos, cuts, split, out)

\* Segment.divide, `while segment.text`: segment against the current cut Head(cuts)
DivideSegment(segment, rest, pos, cuts, split, out) ==
    IF segment = <<>>
    THEN DivideNext(rest, pos, cuts, split, out)
    ELSE LET end_pos == pos + Len(segment)
             cut == Head(cuts)
         IN  IF end_pos < cut
             THEN DivideNext(rest, end_pos, cuts, Append(split, segment), out)
             ELSE IF end_pos = cut
             THEN LET out2 == Append(out, Append(split, segment))
                  IN  IF Tail(cuts) = <<>>
                      THEN out2
                      ELSE DivideNext(rest, end_pos, Tail(cuts), <<>>, out2)
             ELSE LET before == PyTake(segment, cut - pos)
                      after == PyDrop(segment, cut - pos)
                      out2 == Append(out, Append(split, before))
                  IN  IF Tail(cuts) = <<>>
                      THEN out2
                      ELSE DivideSegment(after, rest, cut, Tail(cuts), <<>>, out2)

\* list(Segment.divide(line, cuts)): the portions of line the cuts delimit
Divide(line, cuts) ==
    LET start == SkipZeroCuts(cuts, <<>>)
    IN  IF start.cuts = <<>>
        THEN start.out
        ELSE DivideNext(line, 0, start.cuts, <<>>, start.out)

---------------------------------------------------------------------------
(* The widgets and what they report (the capabilities of textual.widget    *)
(* the compositor consumes).                                               *)

Widgets == {"root", "a", "b", "c"}

\* the two sizes a screen or a root widget takes
Big == Size(MaxW, MaxH)
Small == Size(MaxW - 1, MaxH - 1)
Sizes == {Big, Small}

\* the children a widget's layout considers (Layout.arrange's second result)
Children(w) == CASE w = "root" -> {"a", "b"} [] w = "a" -> {"c"} [] OTHER -> {}

\* widget._get_lines(): size.height lines of size.width cells, one segment a line
GetLines(w) ==
    [row \in 1..wsize[w].height |->
        IF wsize[w].width = 0
        THEN <<>>
        ELSE << [col \in 1..wsize[w].width |-> <<w, col - 1, row - 1>>] >>]

\* what the widgets report throughout a run: the root's size, and visible and
\* is_transparent of every widget (all opaque; the root transparent; the
\* containers transparent; b hidden; all opaque under a small root)
World(s, hidden, clear) ==
    [root_size |-> s,
     visible |-> [w \in Widgets |-> w \notin hidden],
     transparent |-> [w \in Widgets |-> w \in clear]]
Worlds ==
    { World(Big, {}, {}), World(Big, {}, {"root"}), World(Big, {}, {"root", "a"}),
      World(Big, {"b"}, {}), World(Small, {}, {}) }

---------------------------------------------------------------------------
(* What the layouts answer: a scene gives, for every widget, its layout's  *)
(* placements (None: no layout), its resolved styles.offset, its scroll    *)
(* and its z.  A placement is [region, widget, order].                     *)

Placement(r, w, z) == [region |-> r, widget |-> w, order |-> z]

\* the z a placement of b carries: that of a, or the highest
ZSet == {0, MaxZ}
\* a displacement or scroll in x: none, or MaxShift cells
Shifts == {0, MaxShift}

\* where the root's layout places a: across the first row, or one cell to the
\* right and so past the right edge of a root MaxW wide
StripA == Region(0, 0, MaxW, 1)
ShiftedA == Region(1, 0, MaxW, 1)
\* where the root's layout may place b: a cell of the first row, a cell of the
\* second row, a region without width
PlacesB == {Region(1, 0, 1, 1), Region(1, 1, 1, 1), Region(1, 0, 0, 1)}
\* where a's layout places c (in a's coordinates)
PlaceC == Region(0, 0, MaxW - 1, 1)
\* the z a nested widget may report
ZPrefixes == {<<>>, <<MaxZ>>}

NoLayouts == [w \in Widgets |-> None]
NoOffsets == [w \in Widgets |-> ORIGIN]
NoZ == [w \in Widgets |-> <<>>]

\* a and b placed by the root (each or none), a without a layout
FlatScenes ==
    { [layout |-> [NoLayouts EXCEPT !["root"] = Some(pa \o pb)],
       offset |-> NoOffsets, scroll |-> NoOffsets, z |-> NoZ] :
        pa \in {<<>>, <<Placement(StripA, "a", 0)>>},
        pb \in {<<>>} \cup {<<Placement(r, "b", z)>> : r \in PlacesB, z \in ZSet} }

\* a placed by the root, c placed by a; a displaced by dx and scrolled by sx
NestedScenes ==
    { [layout |-> [NoLayouts EXCEPT
                     !["root"] = Some(<<Placement(ShiftedA, "a", MaxZ)>>),
                     !["a"] = Some(<<Placement(PlaceC, "c", 0)>>)],
       offset |-> [NoOffsets EXCEPT !["a"] = Offset(dx, 0)],
       scroll |-> [NoOffsets EXCEPT !["a"] = Offset(sx, 0)],
       z |-> [NoZ EXCEPT !["c"] = zc]] :
        dx \in Shifts, sx \in Shifts, zc \in ZPrefixes }

\* where a's layout places c in the deep scene: right of a's own cells
WideC == Region(MaxW, 0, 1, 1)
\* a placed by the root, c placed by a past a's right edge; nothing displaced
\* or scrolled
DeepScenes ==
    { [layout |-> [NoLayouts EXCEPT
                     !["root"] = Some(<<Placement(ShiftedA, "a", MaxZ)>>),
                     !["a"] = Some(<<Placement(WideC, "c", 0)>>)],
       offset |-> NoOffsets, scroll |-> NoOffsets, z |-> NoZ] }

Scenes == FlatScenes \cup NestedScenes \cup DeepScenes

---------------------------------------------------------------------------
(* Order tuples and the map.                                               *)

\* Python's tuple comparison s < t
LexLess(s, t) ==
    \E i \in 1..(Min(Len(s), Len(t)) + 1) :
        /\ \A j \in 1..(i - 1) : s[j] = t[j]
        /\ \/ i > Len(s) /\ i <= Len(t)
           \/ i <= Len(s) /\ i <= Len(t) /\ s[i] < t[i]

RenderRegion(w, region, order, clip, virtual_size) ==
    [widget |-> w, region |-> region, order |-> order, clip |-> clip,
     virtual_size |-> virtual_size]

\* map.keys()
Keys(m) == {m[i].widget : i \in 1..Len(m)}
\* map[w]
Get(m, w) == m[CHOOSE i \in 1..Len(m) : m[i].widget = w]

RECURSIVE InsertAscending(_, _)
\* one step of a stable ascending sort by placement.order: p goes behind every
\* element that does not sort after it
InsertAscending(sorted, p) ==
    IF sorted # <<>> /\ sorted[Len(sorted)].order > p.order
    THEN Append(InsertAscending(SubSeq(sorted, 1, Len(sorted) - 1), p), sorted[Len(sorted)])
    ELSE Append(sorted, p)

RECURSIVE SortPlacements(_)
\* sorted(placements, key=attrgetter("order"))
SortPlacements(ps) ==
    IF ps = <<>> THEN <<>>
    ELSE InsertAscending(SortPlacements(SubSeq(ps, 1, Len(ps) - 1)), ps[Len(ps)])

RECURSIVE InsertDescending(_, _)
\* one step of a stable descending sort by entry.order
InsertDescending(sorted, e) ==
    IF sorted # <<>> /\ LexLess(sorted[Len(sorted)].order, e.order)
    THEN Append(InsertDescending(SubSeq(sorted, 1, Len(sorted) - 1), e), sorted[Len(sorted)])
    ELSE Append(sorted, e)

RECURSIVE SortLayers(_)
\* sorted(items, key=order, reverse=True): front first, ties in insertion order
SortLayers(m) ==
    IF m = <<>> THEN <<>>
    ELSE InsertDescending(SortLayers(SubSeq(m, 1, Len(m) - 1)), m[Len(m)])

---------------------------------------------------------------------------
(* The arranger.                                                           *)

RECURSIVE add_widget(_, _, _, _, _, _)
RECURSIVE AddPlacements(_, _, _, _, _, _, _)

\* AddPlacements arranging the children without the scroll of their parent
AddPlacementsUnscrolled(scene, placements, region, scroll, sub_clip, total_region, acc) ==
    IF placements = <<>>
    THEN [map |-> acc.map, widgets |-> acc.widgets, total_region |-> total_region]
    ELSE LET p == Head(placements)
             sub == add_widget(scene, p.widget,
                               Translate(p.region, RegionOrigin(region)),
                               scene.z[p.widget] \o <<p.order>>,
                               sub_clip, acc)
         IN  AddPlacements(scene, Tail(placements), region, scroll, sub_clip,
                           Union(total_region, p.region), sub)

\* add_widget, `for sub_region, sub_widget, z in placements`: acc is
\* [map, widgets, total_region] so far
AddPlacements(scene, placements, region, scroll, sub_clip, total_region, acc) ==
    IF placements = <<>>
    THEN [map |-> acc.map, widgets |-> acc.widgets, total_region |-> total_region]
    ELSE LET p == Head(placements)
             sub == add_widget(scene, p.widget,
                               TranslateBack(Translate(p.region, RegionOrigin(region)), scroll),
                               scene.z[p.widget] \o <<p.order>>,
                               sub_clip, acc)
         IN  AddPlacements(scene, Tail(placements), region, scroll, sub_clip,
                           Union(total_region, p.region), sub)

\* add_widget taking the sub-clip from the displaced region of the widget
add_widget_displaced_clip(scene, widget, region, order, clip, acc) ==
    LET layout_offset == scene.offset[widget]
        with_widget == [map |-> acc.map, widgets |-> acc.widgets \cup {widget}]
    IN  IF scene.layout[widget] = None
        THEN [map |-> Append(with_widget.map,
                             RenderRegion(widget, Translate(region, layout_offset), order,
                                          clip, RegionSize(region))),
              widgets |-> with_widget.widgets]
        ELSE LET arranged == [map |-> with_widget.map,
                              widgets |-> with_widget.widgets \cup Children(widget)]
                 done == AddPlacements(scene, SortPlacements(Value(scene.layout[widget])), region,
                                       scene.scroll[widget],
                                       Intersection(clip, Translate(region, layout_offset)),
                                       SizeRegion(RegionSize(region)), arranged)
             IN  [map |-> Append(done.map,
                                 RenderRegion(widget, Translate(region, layout_offset), order,
                                              clip, RegionSize(done.total_region))),
                  widgets |-> done.widgets]

\* _arrange_root.add_widget: acc is [map, widgets] so far
add_widget(scene, widget, region, order, clip, acc) ==
    LET layout_offset == scene.offset[widget]
        with_widget == [map |-> acc.map, widgets |-> acc.widgets \cup {widget}]
    IN  IF scene.layout[widget] = None
        THEN [map |-> Append(with_widget.map,
                             RenderRegion(widget, Translate(region, layout_offset), order,
                                          clip, RegionSize(region))),
              widgets |-> with_widget.widgets]
        ELSE LET arranged == [map |-> with_widget.map,
                              widgets |-> with_widget.widgets \cup Children(widget)]
                 done == AddPlacements(scene, SortPlacements(Value(scene.layout[widget])), region,
                                       scene.scroll[widget], Intersection(clip, region),
                                       SizeRegion(RegionSize(region)), arranged)
             IN  [map |-> Append(done.map,
                                 RenderRegion(widget, Translate(region, layout_offset), order,
                                              clip, RegionSize(done.total_region))),
                  widgets |-> done.widgets]

\* Compositor._arrange_root for a root of size root_size
_arrange_root(scene, root_size) ==
    add_widget(scene, "root", SizeRegion(root_size), <<>>, SizeRegion(root_size),
               [map |-> <<>>, widgets |-> {}])

---------------------------------------------------------------------------
(* The cut computer.                                                       *)

RECURSIVE SortedSeq(_)
\* sorted(set): the members of a finite set of integers, increasing
SortedSeq(S) ==
    IF S = {} THEN <<>>
    ELSE LET m == CHOOSE v \in S : \A u \in S : v <= u
         IN  <<m>> \o SortedSeq(S \ {m})

\* EntryCuts recording the left extent of the region alone
EntryCutsLeftOnly(e, sz, y) ==
    LET region == Intersection(e.region, e.clip)
    IN  IF /\ NonEmpty(region)
           /\ RegionIn(region, SizeRegion(sz))
           /\ region.y <= y /\ y < region.y + region.height
        THEN {region.x}
        ELSE {}

\* the cuts a map entry adds to row y: the x-extents of its clipped region, when
\* that region has area, lies within the screen and has row y
EntryCuts(e, sz, y) ==
    LET region == Intersection(e.region, e.clip)
    IN  IF /\ NonEmpty(region)
           /\ RegionIn(region, SizeRegion(sz))
           /\ region.y <= y /\ y < region.y + region.height
        THEN {region.x, region.x + region.width}
        ELSE {}

\* Compositor.cuts, the computation: one sorted cut list for every row of the screen
ComputeCuts(m, sz) ==
    [row \in 1..sz.height |->
        SortedSeq({0, sz.width} \cup UNION {EntryCuts(m[i], sz, row - 1) : i \in 1..Len(m)})]

\* Compositor.cuts, the property: the cached list when there is one
Cuts == IF _cuts # None THEN Value(_cuts) ELSE ComputeCuts(map, size)

---------------------------------------------------------------------------
(* The renderer.  A call that raises has raised = TRUE.                    *)

Raised == [raised |-> TRUE]

\* _get_renders, `lines = [list(divide(line, splits))[1] for line in lines]`:
\* None when a division has no second portion (IndexError)
crop_lines(lines, splits) ==
    IF \E i \in 1..Len(lines) : Len(Divide(lines[i], splits)) < 2
    THEN None
    ELSE Some([i \in 1..Len(lines) |-> Divide(lines[i], splits)[2]])

\* _get_renders, what is yielded for a widget with these lines
yield_lines(e, lines) ==
    IF lines = None
    THEN Some(Raised)
    ELSE Some([region |-> e.region, clip |-> e.clip, lines |-> Value(lines), raised |-> FALSE])

\* _get_renders, the branch `elif clip.overlaps(region)`: the lines cropped to
\* new_region, the part of the region inside the clip
clipped_lines(e, new_region) ==
    crop_lines(PySlice(GetLines(e.widget), new_region.y - e.region.y,
                       new_region.y - e.region.y + new_region.height),
               <<new_region.x - e.region.x, new_region.x - e.region.x + new_region.width>>)

\* _get_renders, the lines one widget yields: None when it yields nothing
WidgetRender(e) ==
    IF transparent[e.widget] THEN None
    ELSE IF RegionIn(e.region, e.clip)
    THEN yield_lines(e, Some(GetLines(e.widget)))
    ELSE IF Overlaps(e.clip, e.region)
    THEN yield_lines(e, clipped_lines(e, Intersection(e.region, e.clip)))
    ELSE None

\* the entries _get_renders visits: the visible ones, front first
RenderOrder(m) ==
    LET IsVisible(e) == visible[e.widget]
    IN  SortLayers(SelectSeq(m, IsVisible))

\* _get_renders, the renders of these layers in order
renders_of(layers) ==
    LET Yields(o) == o # None
    IN  SelectSeq([i \in 1..Len(layers) |-> WidgetRender(layers[i])], Yields)

\* Compositor._get_renders
_get_renders == renders_of(RenderOrder(map))

\* render, `final_cuts = [cut for cut in cuts[y] if (last_cut >= cut >= first_cut)]`
final_cuts_of(row_cuts, render_region) ==
    LET first_cut == render_region.x
        last_cut == render_region.x + render_region.width
        InExtent(cut) == last_cut >= cut /\ cut >= first_cut
    IN  SelectSeq(row_cuts, InExtent)

\* render, `_, *cut_segments = ...`: None when there is nothing to unpack
\* (ValueError)
unpack_rest(divided) == IF divided = <<>> THEN None ELSE Some(Tail(divided))

\* render, cut_segments: the whole line for two cuts, else the line divided at
\* the cuts relative to the region
cut_segments_of(line, final_cuts, render_x) ==
    IF Len(final_cuts) = 2
    THEN Some(<<line>>)
    ELSE unpack_rest(Divide(line, [i \in 1..Len(final_cuts) |-> final_cuts[i] - render_x]))

\* render, `for cut, segments in zip(final_cuts, cut_segments)`: a bucket that
\* is None takes its segments, a filled one keeps what it has
fill_buckets(chops_line, final_cuts, cut_segments) ==
    LET n == Min(Len(final_cuts), Len(cut_segments))
    IN  [cut \in DOMAIN chops_line |->
            IF chops_line[cut] = None /\ (\E i \in 1..n : final_cuts[i] = cut)
            THEN Some(cut_segments[CHOOSE i \in 1..n : final_cuts[i] = cut])
            ELSE chops_line[cut]]

\* render, one line painted into row `row` of chops, given its cut_segments
paint_row(chops, row, final_cuts, cut_segments) ==
    IF cut_segments = None
    THEN Raised
    ELSE [raised |-> FALSE,
          chops |-> [chops EXCEPT ![row] = fill_buckets(chops[row], final_cuts,
                                                        Value(cut_segments))]]

\* render, the line painted at the cuts of its row that the region spans
paint_cuts(chops, row, final_cuts, line, render_x) ==
    paint_row(chops, row, final_cuts, cut_segments_of(line, final_cuts, render_x))

\* list index y of a list of length n, counted from 1 (y may be negative)
row_index(y, n) == IF y >= 0 THEN y + 1 ELSE n + y + 1

\* render, the body of `for y, line in zip(...)`: one line of a widget painted
\* into the buckets of row y; acc is [raised, chops] so far, and nothing more is
\* painted once an exception is raised
PaintLine(cuts, acc, render_region, y, line) ==
    IF acc.raised THEN Raised
    ELSE IF ~(-Len(cuts) <= y /\ y < Len(cuts))
    THEN Raised
    ELSE paint_cuts(acc.chops, row_index(y, Len(cuts)),
                    final_cuts_of(cuts[row_index(y, Len(cuts))], render_region),
                    line, render_region.x)

RECURSIVE PaintLines(_, _, _, _, _)
\* render, `for y, line in zip(render_region.y_range, lines)` from line i on
PaintLines(cuts, acc, render_region, lines, i) ==
    IF i > Min(Len(lines), render_region.height)
    THEN acc
    ELSE PaintLines(cuts,
                    PaintLine(cuts, acc, render_region, render_region.y + i - 1, lines[i]),
                    render_region, lines, i + 1)

\* render, the body of `for region, clip, lines in renders` for the render r
PaintRender(cuts, acc, r) ==
    IF acc.raised \/ r.raised THEN Raised
    ELSE PaintLines(cuts, acc, Intersection(r.region, r.clip), r.lines, 1)

RECURSIVE PaintRenders(_, _, _)
\* render, `for region, clip, lines in renders`: front to back, the first to fill
\* a bucket wins
PaintRenders(cuts, acc, renders) ==
    IF renders = <<>>
    THEN acc
    ELSE PaintRenders(cuts, PaintRender(cuts, acc, Value(Head(renders))), Tail(renders))

\* the filled buckets among these, unwrapped
filled_of(buckets) ==
    LET Filled(o) == o # None
    IN  [i \in 1..Len(SelectSeq(buckets, Filled)) |-> Value(SelectSeq(buckets, Filled)[i])]

\* the buckets of one row in dict order (the cuts, increasing)
bucket_values(bucket, keys) == [i \in 1..Len(keys) |-> bucket[keys[i]]]

\* the buckets of one row in dict order, the filled ones
FilledBuckets(bucket) == filled_of(bucket_values(bucket, SortedSeq(DOMAIN bucket)))

\* Compositor._assemble_chops
_assemble_chops(chops) == [i \in 1..Len(chops) |-> Concat(FilledBuckets(chops[i]))]

\* width_view, `div_lines[1] if len(div_lines) > 1 else div_lines[0]`
view_of(div_lines) ==
    IF div_lines = <<>> THEN Raised
    ELSE [raised |-> FALSE,
          line |-> IF Len(div_lines) > 1 THEN div_lines[2] ELSE div_lines[1]]

\* render.width_view
width_view(line, crop_x, crop_x2) ==
    IF line = <<>>
    THEN [raised |-> FALSE, line |-> line]
    ELSE view_of(Divide(line, <<crop_x, crop_x2>>))

\* crop_region testing the crop against None instead of for its truth
crop_region_not_none(crop, screen_region) ==
    IF crop # None
    THEN Intersection(Value(crop), screen_region)
    ELSE screen_region

\* render, `crop.intersection(screen_region) if crop else screen_region`: a
\* region without area is false
crop_region_of(crop, screen_region) ==
    IF crop # None /\ NonEmpty(Value(crop))
    THEN Intersection(Value(crop), screen_region)
    ELSE screen_region

\* render, `chops`: for every row a bucket for every cut, all None
empty_chops(cuts) ==
    [row \in 1..Len(cuts) |-> [cut \in {cuts[row][i] : i \in 1..Len(cuts[row])} |-> None]]

\* render, `[width_view(line) for line in render_lines]`
viewed_lines(viewed) ==
    IF \E i \in 1..Len(viewed) : viewed[i].raised
    THEN Raised
    ELSE [raised |-> FALSE, lines |-> [i \in 1..Len(viewed) |-> viewed[i].line]]

\* render, the lines returned: viewed between the crop's columns when a crop not
\* spanning the screen's width is given
render_view(render_lines, crop_x, crop_x2, crop) ==
    IF crop # None /\ <<crop_x, crop_x2>> # <<0, size.width>>
    THEN viewed_lines([i \in 1..Len(render_lines) |->
                          width_view(render_lines[i], crop_x, crop_x2)])
    ELSE [raised |-> FALSE, lines |-> render_lines]

\* render, from `crop_x, crop_y, crop_x2, crop_y2 = crop_region.corners` on
render_crop(painted, crop_region, crop) ==
    IF painted.raised THEN Raised
    ELSE render_view(_assemble_chops(PySlice(painted.chops, crop_region.y,
                                             crop_region.y + crop_region.height)),
                     crop_region.x, crop_region.x + crop_region.width, crop)

\* Compositor.render with the cut lists `cuts`; crop is None or Some(region)
render(cuts, crop) ==
    render_crop(PaintRenders(cuts, [raised |-> FALSE, chops |-> empty_chops(cuts)],
                             _get_renders),
                crop_region_of(crop, Region(0, 0, size.width, size.height)), crop)

---------------------------------------------------------------------------
(* The operations of the Compositor.                                       *)

\* the crops render is called with: none, an empty one, one inside the screen,
\* one extending past the screen
Crops == {None, Some(Region(0, 0, 0, 1)), Some(Region(1, 0, 1, 1)),
          Some(Region(1, 1, MaxW, MaxH))}

\* hidden_widgets with the difference taken the other way round
hidden_widgets_reversed(new) == Keys(new) \ Keys(map)

\* new_renders storing the region each widget is drawn in, cut to its clip
new_renders_clipped(new) ==
    [w \in Keys(new) |-> [region |-> Intersection(Get(new, w).region, Get(new, w).clip),
                          clip |-> Get(new, w).clip]]

\* reflow: newly visible widgets
shown_widgets(new) == Keys(new) \ Keys(map)
\* reflow: newly hidden widgets
hidden_widgets(new) == Keys(map) \ Keys(new)
\* reflow: widgets with changed size
resized_widgets(new) ==
    {new[i].widget : i \in {j \in 1..Len(new) :
        new[j].widget \in Keys(map) /\ wsize[new[j].widget] # RegionSize(new[j].region)}}
\* reflow: new_renders
new_renders(new) ==
    [w \in Keys(new) |-> [region |-> Get(new, w).region, clip |-> Get(new, w).clip]]

\* the callers' `widget._update_size(unclipped_region.size)` for every widget of
\* the arrangement, right after reflow
UpdatedSizes(new) ==
    [w \in Widgets |-> IF w \in Keys(new) THEN RegionSize(Get(new, w).region) ELSE wsize[w]]

\* what _arrange_root answers for every scene and root size
Arrangement == [scene \in Scenes, s \in Sizes |-> _arrange_root(scene, s)]

\* Compositor.reflow(parent, size), the arrangement succeeding, and the size
\* update its caller does next
Reflow(scene, sz) ==
    LET arranged == Arrangement[scene, wsize["root"]]
    IN  /\ _cuts' = None
        /\ root' = Some("root")
        /\ size' = sz
        /\ _require_update' = FALSE
        /\ map' = arranged.map
        /\ regions' = new_renders(arranged.map)
        /\ widgets' = arranged.widgets
        /\ ret' = [op |-> "reflow", raised |-> FALSE,
                   hidden |-> hidden_widgets(arranged.map),
                   shown |-> shown_widgets(arranged.map),
                   resized |-> resized_widgets(arranged.map)]
        /\ wsize' = UpdatedSizes(arranged.map)
        /\ UNCHANGED <<visible, transparent>>

\* ReflowRaises with the map emptied before the arrangement is computed
ReflowRaisesCleared(sz) ==
    /\ _cuts' = None
    /\ root' = Some("root")
    /\ size' = sz
    /\ map' = <<>>
    /\ ret' = [op |-> "reflow", raised |-> TRUE]
    /\ UNCHANGED <<regions, widgets, _require_update, wsize, visible, transparent>>

\* Compositor.reflow(parent, size) when a layout's arrange raises: what reflow
\* did before _arrange_root stays done
ReflowRaises(sz) ==
    /\ _cuts' = None
    /\ root' = Some("root")
    /\ size' = sz
    /\ ret' = [op |-> "reflow", raised |-> TRUE]
    /\ UNCHANGED <<map, regions, widgets, _require_update, wsize, visible, transparent>>

\* require_update leaving the cached cuts in place
RequireUpdateKeepsCuts ==
    /\ _require_update' = TRUE
    /\ map' = <<>>
    /\ widgets' = {}
    /\ ret' = [op |-> "require_update"]
    /\ UNCHANGED <<root, size, regions, _cuts, wsize, visible, transparent>>

\* Compositor.require_update
RequireUpdate ==
    /\ _require_update' = TRUE
    /\ _cuts' = None
    /\ map' = <<>>
    /\ widgets' = {}
    /\ ret' = [op |-> "require_update"]
    /\ UNCHANGED <<root, size, regions, wsize, visible, transparent>>

\* Compositor.reset_update
ResetUpdate ==
    /\ _require_update' = FALSE
    /\ ret' = [op |-> "reset_update"]
    /\ UNCHANGED <<map, widgets, root, size, regions, _cuts, wsize, visible, transparent>>

\* the value of ret for a render(crop) with this result
render_result(crop, result) ==
    IF result.raised
    THEN [op |-> "render", crop |-> crop, raised |-> TRUE]
    ELSE [op |-> "render", crop |-> crop, raised |-> FALSE, lines |-> result.lines]

\* what render(crop) returns, as the value of ret
RenderReturn(crop) == render_result(crop, render(Cuts, crop))

\* Compositor.render(console, crop=crop): `self.cuts` caches the cut lists
Render(crop) ==
    /\ _cuts' = Some(Cuts)
    /\ ret' = RenderReturn(crop)
    /\ UNCHANGED <<map, widgets, root, size, regions, _require_update, wsize, visible,
                   transparent>>

\* update_widget: the region of the patch
update_region(w) == Intersection(regions[w].region, regions[w].clip)

\* update_widget returns None: the widget is not in regions or has nothing to show
NoUpdate(w) ==
    \/ w \notin DOMAIN regions
    \/ ~NonEmpty(regions[w].region)
    \/ ~NonEmpty(update_region(w))

\* the value of ret for an update_widget(widget) whose render has this result;
\* cleared holds the widgets whose clear_render_cache the call invoked
update_result(w, result) ==
    IF result.raised
    THEN [op |-> "update_widget", widget |-> w, raised |-> TRUE, cleared |-> {w}]
    ELSE [op |-> "update_widget", widget |-> w, raised |-> FALSE, cleared |-> {w},
          update |-> Some([lines |-> result.lines, region |-> update_region(w)])]

\* what update_widget(widget) returns, as the value of ret
UpdateReturn(w) ==
    IF NoUpdate(w)
    THEN [op |-> "update_widget", widget |-> w, raised |-> FALSE, cleared |-> {},
          update |-> None]
    ELSE update_result(w, render(Cuts, Some(update_region(w))))

\* Compositor.update_widget(console, widget)
UpdateWidget(w) ==
    /\ _cuts' = IF NoUpdate(w) THEN _cuts ELSE Some(Cuts)
    /\ ret' = UpdateReturn(w)
    /\ UNCHANGED <<map, widgets, root, size, regions, _require_update, wsize, visible,
                   transparent>>

---------------------------------------------------------------------------
(* The specification.                                                      *)

\* Compositor.__init__; the other widgets than the root report Size(0, 0)
\* until they are arranged
Init ==
    /\ map = <<>>
    /\ widgets = {}
    /\ root = None
    /\ size = Size(0, 0)
    /\ regions = << >>
    /\ _cuts = None
    /\ _require_update = TRUE
    /\ \E world \in Worlds :
        /\ wsize = [w \in Widgets |-> IF w = "root" THEN world.root_size ELSE Size(0, 0)]
        /\ visible = world.visible
        /\ transparent = world.transparent
    /\ ret = [op |-> "init"]

Next ==
    \/ \E scene \in Scenes, sz \in Sizes : Reflow(scene, sz)
    \/ \E sz \in Sizes : ReflowRaises(sz)
    \/ RequireUpdate
    \/ ResetUpdate
    \/ \E crop \in Crops : Render(crop)
    \/ \E w \in Widgets : UpdateWidget(w)

Spec == Init /\ [][Next]_vars

---------------------------------------------------------------------------
(* The lookups of the Compositor.  A lookup that raises has raised = TRUE  *)
(* and names its error.                                                    *)

\* the points looked up: the cells of the first row, the point right of them
\* and a cell of the last row
Points == {<<x, 0>> : x \in 0..MaxW} \cup {<<1, MaxH - 1>>}

\* iter_layers in the insertion order of the map, not sorted
iter_layers_unsorted(m) == m

\* Compositor.__iter__, `layers`: every item of the map, greatest order first
iter_layers(m) == SortLayers(m)

\* get_widget_at, the loop over the layers: the first whose cropped region
\* contains (x, y), or None
first_hit(layers, x, y) ==
    LET Hit(e) == Contains(Intersection(e.region, e.clip), x, y)
    IN  IF SelectSeq(layers, Hit) = <<>>
        THEN None
        ELSE Some([widget |-> SelectSeq(layers, Hit)[1].widget,
                   region |-> SelectSeq(layers, Hit)[1].region])

\* Compositor.get_widget_at(x, y): Some([widget, region]), or None for NoWidget
get_widget_at(x, y) == first_hit(iter_layers(map), x, y)

\* get_style_at, `for segment in line`: the style of the first segment ending
\* right of x (the widget of its cells stands for the style); None is Style.null()
RECURSIVE segment_style(_, _, _)
segment_style(line, x, end) ==
    IF line = <<>> THEN None
    ELSE IF x < end + Len(Head(line))
    THEN (IF Head(line) = <<>> THEN None ELSE Some(Head(line)[1][1]))
    ELSE segment_style(Tail(line), x, end + Len(Head(line)))

\* get_style_at, from `lines = widget._get_lines()` on, x and y local to the
\* widget's region: `if y > len(lines)` lets y = len(lines) through to lines[y]
style_in(lines, x, y) ==
    IF y > Len(lines)
    THEN [raised |-> FALSE, style |-> None]
    ELSE IF ~(-Len(lines) <= y /\ y < Len(lines))
    THEN [raised |-> TRUE, error |-> "IndexError"]
    ELSE [raised |-> FALSE, style |-> segment_style(lines[row_index(y, Len(lines))], x, 0)]

\* get_style_at, after get_widget_at answered `hit`
style_of_hit(hit, x, y) ==
    IF hit = None
    THEN [raised |-> FALSE, style |-> None]
    ELSE IF Value(hit).widget \notin DOMAIN regions
    THEN [raised |-> FALSE, style |-> None]
    ELSE style_in(GetLines(Value(hit).widget), x - Value(hit).region.x,
                  y - Value(hit).region.y)

\* Compositor.get_style_at(x, y)
get_style_at(x, y) == style_of_hit(get_widget_at(x, y), x, y)

\* get_offset answering the origin of the clipped region
get_offset_clipped(w) ==
    IF w \in Keys(map)
    THEN Some(RegionOrigin(Intersection(Get(map, w).region, Get(map, w).clip)))
    ELSE None

\* Compositor.get_offset(widget): Some(offset), or None for NoWidget
get_offset(w) == IF w \in Keys(map) THEN Some(RegionOrigin(Get(map, w).region)) ELSE None

\* Compositor.get_widget_region(widget): Some(region), or None for NoWidget
get_widget_region(w) == IF w \in Keys(map) THEN Some(Get(map, w).region) ELSE None

\* the value of ret for a lookup `op` of `arg` answering `answer`
lookup_result(op, arg, answer) ==
    IF answer = None
    THEN [op |-> op, arg |-> arg, raised |-> TRUE, error |-> "NoWidget"]
    ELSE [op |-> op, arg |-> arg, raised |-> FALSE, value |-> Value(answer)]

\* the value of ret for a get_style_at(x, y) with this result
style_result(p, result) ==
    IF result.raised
    THEN [op |-> "get_style_at", arg |-> p, raised |-> TRUE, error |-> result.error]
    ELSE [op |-> "get_style_at", arg |-> p, raised |-> FALSE, style |-> result.style]

\* the variables no lookup assigns
state == <<map, widgets, root, size, regions, _cuts, _require_update, wsize, visible,
           transparent>>

\* Compositor.get_widget_at(x, y)
GetWidgetAt(p) ==
    /\ ret' = lookup_result("get_widget_at", p, get_widget_at(p[1], p[2]))
    /\ UNCHANGED state

\* Compositor.get_style_at(x, y)
GetStyleAt(p) ==
    /\ ret' = style_result(p, get_style_at(p[1], p[2]))
    /\ UNCHANGED state

\* Compositor.get_offset(widget)
GetOffset(w) ==
    /\ ret' = lookup_result("get_offset", w, get_offset(w))
    /\ UNCHANGED state

\* Compositor.get_widget_region(widget)
GetWidgetRegion(w) ==
    /\ ret' = lookup_result("get_widget_region", w, get_widget_region(w))
    /\ UNCHANGED state

---------------------------------------------------------------------------
(* The Screen's handlers (src/src/textual/screen.py), which drive the      *)
(* compositor with the screen as root and the screen's size as size.       *)

\* the size of the screen without area, for which refresh_layout returns at once
NoSize == Size(0, 0)

\* `if not self.size`
HasArea(s) == s.width # 0 /\ s.height # 0

\* the sizes the widgets report, the screen's being s
with_screen_size(s) == [wsize EXCEPT !["root"] = s]

\* reflow's resized_widgets as refresh_layout gets it, the widgets reporting `sizes`
resized_of(new, sizes) ==
    {new[i].widget : i \in {j \in 1..Len(new) :
        new[j].widget \in Keys(map) /\ sizes[new[j].widget] # RegionSize(new[j].region)}}

\* refresh_layout, `widget._update_size(unclipped_region.size)` for every widget
\* of the compositor
sizes_updated(new, sizes) ==
    [w \in Widgets |-> IF w \in Keys(new) THEN RegionSize(Get(new, w).region) ELSE sizes[w]]

\* Screen.refresh_layout returning at once: the screen has no area
RefreshEmpty(handler, sizes, flag) ==
    /\ ~HasArea(sizes["root"])
    /\ wsize' = sizes
    /\ _require_update' = flag
    /\ ret' = [op |-> handler, reflow |-> "none"]
    /\ UNCHANGED <<map, widgets, root, size, regions, _cuts, visible, transparent>>

\* Screen.refresh_layout when reflow raises: the handler panics the app and
\* returns, with what reflow did before _arrange_root done
RefreshRaises(handler, sizes, flag) ==
    /\ HasArea(sizes["root"])
    /\ _cuts' = None
    /\ root' = Some("root")
    /\ size' = sizes["root"]
    /\ wsize' = sizes
    /\ _require_update' = flag
    /\ ret' = [op |-> handler, reflow |-> "raised"]
    /\ UNCHANGED <<map, widgets, regions, visible, transparent>>

RECURSIVE SetToSeq(_)
\* the members of a set in the order a loop over it visits them
SetToSeq(S) ==
    IF S = {} THEN <<>>
    ELSE LET w == CHOOSE w \in S : TRUE
         IN  <<w>> \o SetToSeq(S \ {w})

\* refresh_layout, `for widget in hidden: ...(events.Hide(self))` and the same
\* for shown with events.Show
posts_of(event, ws) == [i \in 1..Len(ws) |-> [event |-> event, widget |-> ws[i]]]

\* send_resize being the resized widgets alone
send_resize_resized_only(shown, resized) == resized

\* refresh_layout, `send_resize = shown | resized`
send_resize(shown, resized) == shown \cup resized

\* refresh_layout, the body of `for widget, region, unclipped_region,
\* virtual_size in self._compositor` for one layer
layer_posts(e, send) ==
    <<[event |-> "_update_size", widget |-> e.widget, size |-> RegionSize(e.region)]>>
    \o (IF e.widget \in send
        THEN <<[event |-> "Resize", widget |-> e.widget, size |-> RegionSize(e.region),
                virtual_size |-> e.virtual_size]>>
        ELSE <<>>)

RECURSIVE resize_posts(_, _)
\* refresh_layout, the loop over the compositor's layers
resize_posts(layers, send) ==
    IF layers = <<>> THEN <<>>
    ELSE layer_posts(Head(layers), send) \o resize_posts(Tail(layers), send)

\* refresh_layout after a reflow that succeeded: the size updates, the messages
\* posted and the request to refresh the app, in the order they are made
refresh_posts(new, hidden, shown, send) ==
    posts_of("Hide", SetToSeq(hidden)) \o posts_of("Show", SetToSeq(shown))
    \o resize_posts(iter_layers(new), send) \o <<[event |-> "app.refresh"]>>

\* Screen.refresh_layout, reflow(self, self.size) succeeding with the
\* arrangement `arranged`
RefreshArranged(handler, arranged, sizes) ==
    /\ _cuts' = None
    /\ root' = Some("root")
    /\ size' = sizes["root"]
    /\ _require_update' = FALSE
    /\ map' = arranged.map
    /\ regions' = new_renders(arranged.map)
    /\ widgets' = arranged.widgets
    /\ wsize' = sizes_updated(arranged.map, sizes)
    /\ ret' = [op |-> handler, reflow |-> "done",
               hidden |-> hidden_widgets(arranged.map),
               shown |-> shown_widgets(arranged.map),
               resized |-> resized_of(arranged.map, sizes),
               posted |-> refresh_posts(arranged.map, hidden_widgets(arranged.map),
                                        shown_widgets(arranged.map),
                                        send_resize(shown_widgets(arranged.map),
                                                    resized_of(arranged.map, sizes)))]
    /\ UNCHANGED <<visible, transparent>>

\* Screen.refresh_layout with the layouts answering as in `scene`
RefreshDone(handler, scene, sizes) ==
    /\ HasArea(sizes["root"])
    /\ RefreshArranged(handler, Arrangement[scene, sizes["root"]], sizes)

\* Screen.on_resize(event): _update_size(event.size), then refresh_layout
OnResizeDone(scene, s) == RefreshDone("on_resize", scene, with_screen_size(s))
OnResizeRaises(s) == RefreshRaises("on_resize", with_screen_size(s), _require_update)
OnResizeEmpty == RefreshEmpty("on_resize", with_screen_size(NoSize), _require_update)

\* Screen.on_idle(event) with an update required: reset_update, then refresh_layout
OnIdleDone(scene) == _require_update /\ RefreshDone("on_idle", scene, wsize)
OnIdleRaises == _require_update /\ RefreshRaises("on_idle", wsize, FALSE)
OnIdleEmpty == _require_update /\ RefreshEmpty("on_idle", wsize, FALSE)

\* Screen.on_idle(event) with no update required
OnIdleSkip ==
    /\ ~_require_update
    /\ ret' = [op |-> "on_idle", reflow |-> "none"]
    /\ UNCHANGED state

\* the points of the screen's mouse events: the first cell and a cell of the
\* last row
MousePoints == {<<0, 0>>, <<1, MaxH - 1>>}

\* the steps of a screen: its handlers and the style lookups of its mouse events
NextScreen ==
    \/ \E scene \in Scenes, s \in Sizes : OnResizeDone(scene, s)
    \/ \E s \in Sizes : OnResizeRaises(s)
    \/ OnResizeEmpty
    \/ \E scene \in Scenes : OnIdleDone(scene)
    \/ OnIdleRaises
    \/ OnIdleEmpty
    \/ OnIdleSkip
    \/ RequireUpdate
    \/ \E p \in MousePoints : GetStyleAt(p)

SpecScreen == Init /\ [][NextScreen]_vars

\* the steps of a compositor that is arranged for its root's size, rendered,
\* updated and looked up
NextLookup ==
    \/ \E scene \in Scenes : Reflow(scene, wsize["root"])
    \/ RequireUpdate
    \/ Render(None)
    \/ \E w \in Widgets : UpdateWidget(w)
    \/ \E p \in Points : GetWidgetAt(p)
    \/ \E p \in Points : GetStyleAt(p)
    \/ \E w \in Widgets : GetOffset(w)
    \/ \E w \in Widgets : GetWidgetRegion(w)

SpecLookup == Init /\ [][NextLookup]_vars

---------------------------------------------------------------------------
(* The patch written to the terminal.  What a renderable yields is the     *)
(* sequence of its items: the control codes and the segments.              *)

\* Control.home(), Control.move_to(x, y), Segment.line() and a segment of a line
Home == [kind |-> "home"]
MoveTo(x, y) == [kind |-> "move_to", x |-> x, y |-> y]
NewLine == [kind |-> "new_line"]
SegmentItem(segment) == [kind |-> "segment", segment |-> segment]

\* `yield from line`
line_items(line) == [i \in 1..Len(line) |-> SegmentItem(line[i])]

\* LayoutUpdate.__rich_console__, one round of the loop: the new line is
\* yielded `if not last`
patch_line(x, y, line, last) ==
    <<MoveTo(x, y)>> \o line_items(line) \o (IF last THEN <<>> ELSE <<NewLine>>)

RECURSIVE patch_lines(_, _, _, _)
\* LayoutUpdate.__rich_console__, `for last, (y, line) in
\* loop_last(enumerate(self.lines, self.region.y))` from line i on
patch_lines(lines, x, y, i) ==
    IF i > Len(lines) THEN <<>>
    ELSE patch_line(x, y + i - 1, lines[i], i = Len(lines))
         \o patch_lines(lines, x, y, i + 1)

RECURSIVE patch_lines_all_ended(_, _, _, _)
\* patch_lines with a new line after every line, the last included
patch_lines_all_ended(lines, x, y, i) ==
    IF i > Len(lines) THEN <<>>
    ELSE patch_line(x, y + i - 1, lines[i], FALSE)
         \o patch_lines_all_ended(lines, x, y, i + 1)

\* LayoutUpdate.__rich_console__ ending every line with a new line
LayoutUpdate_all_ended(lines, region) ==
    <<Home>> \o patch_lines_all_ended(lines, region.x, region.y, 1)

\* LayoutUpdate.__rich_console__: what rendering the patch yields
LayoutUpdate__rich_console__(lines, region) ==
    <<Home>> \o patch_lines(lines, region.x, region.y, 1)

\* the value of ret for a handle_update whose update_widget answered u:
\* `if display_update is not None: self.app.display(display_update)`, the
\* display rendering the patch
handled_update(u) ==
    IF u.raised
    THEN [op |-> "handle_update", widget |-> u.widget, raised |-> TRUE]
    ELSE IF u.update = None
    THEN [op |-> "handle_update", widget |-> u.widget, raised |-> FALSE,
          update |-> None, emitted |-> <<>>]
    ELSE [op |-> "handle_update", widget |-> u.widget, raised |-> FALSE,
          update |-> u.update,
          emitted |-> LayoutUpdate__rich_console__(Value(u.update).lines,
                                                   Value(u.update).region)]

\* Screen.handle_update(message) for message.widget = w
HandleUpdate(w) ==
    /\ _cuts' = IF NoUpdate(w) THEN _cuts ELSE Some(Cuts)
    /\ ret' = handled_update(UpdateReturn(w))
    /\ UNCHANGED <<map, widgets, root, size, regions, _require_update, wsize, visible,
                   transparent>>

\* the steps of a screen that is arranged and repaints its widgets one by one
NextPatch ==
    \/ \E scene \in Scenes : Reflow(scene, wsize["root"])
    \/ \E w \in Widgets : HandleUpdate(w)

SpecPatch == Init /\ [][NextPatch]_vars

---------------------------------------------------------------------------
(* What the claims speak of.                                               *)

\* the region of an entry that is drawn: region intersected with clip
ClippedRegion(e) == Intersection(e.region, e.clip)
\* the renderer draws the entry's widget
Drawn(e) == visible[e.widget] /\ ~transparent[e.widget]
\* the cells of the screen
ScreenCells == {<<x, y>> : x \in 0..(size.width - 1), y \in 0..(size.height - 1)}
\* the cell at column x of row y of rendered lines, None where the lines have none
OutCell(lines, x, y) ==
    IF y + 1 <= Len(lines) /\ x + 1 <= CellLength(lines[y + 1])
    THEN Some(Cells(lines[y + 1])[x + 1])
    ELSE None
\* entry e is the frontmost drawn entry whose clipped region holds (x, y)
Frontmost(e, x, y) ==
    LET Covers(d) == Drawn(d) /\ Contains(ClippedRegion(d), x, y)
        covering == SelectSeq(RenderOrder(map), Covers)
    IN  covering # <<>> /\ covering[1] = e
\* the last call was a render of the whole screen that returned
FullRender == ret.op = "render" /\ ~ret.raised /\ ret.crop = None
\* the last call was a render that returned
Rendered == ret.op = "render" /\ ~ret.raised
\* the last call was an update_widget that returned a patch
Patched == ret.op = "update_widget" /\ ~ret.raised /\ ret.update # None
\* the last call was a reflow that returned / that raised
Reflowed == ret.op = "reflow" /\ ~ret.raised
ReflowFailed == ret.op = "reflow" /\ ret.raised
\* what a render of the whole screen returns in this state
FullRenderNow == render(Cuts, None)
\* the widgets of the arrangement the last successful reflow made (regions is
\* replaced by reflow alone)
LastArranged == DOMAIN regions

---------------------------------------------------------------------------
(* The claims.                                                             *)

\* C1 (depth respect): after a render of the whole screen, for entries A and B
\* of map whose clipped regions both hold the screen cell (x, y), A's order
\* greater than B's and A drawn with no drawn entry in front of it at the cell,
\* the content at (x, y) is taken from A's lines (and so not from B's).
C1_DepthRespect ==
    FullRender =>
        \A i, j \in 1..Len(map) : \A cell \in ScreenCells :
            LET A == map[i]
                B == map[j]
                x == cell[1]
                y == cell[2]
            IN  ( /\ Contains(ClippedRegion(A), x, y)
                  /\ Contains(ClippedRegion(B), x, y)
                  /\ LexLess(B.order, A.order)
                  /\ Frontmost(A, x, y) )
                => /\ OutCell(ret.lines, x, y) # None
                   /\ Value(OutCell(ret.lines, x, y))[1] = A.widget

\* C2 (column alignment): after a render of the whole screen, output row y,
\* column x holds cell (x - W.region.x) of W's line (y - W.region.y) whenever W
\* is the frontmost visible non-transparent widget covering (x, y).
C2_ColumnAlignment ==
    FullRender =>
        \A i \in 1..Len(map) : \A cell \in ScreenCells :
            LET W == map[i]
                x == cell[1]
                y == cell[2]
            IN  Frontmost(W, x, y)
                => OutCell(ret.lines, x, y)
                     = Some(<<W.widget, x - W.region.x, y - W.region.y>>)

\* C3 (partial update equals the cropped full render): a patch update_widget(w)
\* returns has the region map[w].region intersected with map[w].clip, has
\* region.height lines, and line i is columns [region.x, region.x + region.width)
\* of row region.y + i of the full render.
C3_PatchIsCroppedRender ==
    Patched =>
        LET patch == Value(ret.update)
            r == patch.region
            full == FullRenderNow
        IN  /\ ret.widget \in Keys(map)
            /\ r = ClippedRegion(Get(map, ret.widget))
            /\ Len(patch.lines) = r.height
            /\ ~full.raised
            /\ \A i \in 1..Len(patch.lines) :
                 /\ r.y + i <= Len(full.lines)
                 /\ Cells(patch.lines[i])
                      = PySlice(Cells(full.lines[r.y + i]), r.x, r.x + r.width)

\* C4 (reflow diff): every reflow that returns gives shown = new keys minus the
\* keys of map just before the call, hidden = those keys minus the new keys,
\* resized = the widgets in both whose reported size differs from the size of
\* their new region; shown and hidden are disjoint.
C4_ReflowDiff ==
    [][Reflowed' =>
         /\ ret'.shown = Keys(map') \ Keys(map)
         /\ ret'.hidden = Keys(map) \ Keys(map')
         /\ ret'.resized = {w \in Keys(map') \cap Keys(map) :
                              wsize[w] # RegionSize(Get(map', w).region)}
         /\ ret'.shown \cap ret'.hidden = {}]_vars

\* C4's case: a reflow that hid a widget and found another resized
C4_Witness == Reflowed /\ ret.hidden # {} /\ ret.resized # {}

\* C5 (reflow diffs against the previous arrangement): in reflow,
\* require_update(), reflow, a widget the first reflow arranged and the second
\* did not is in the second's hidden set, and a widget both arranged is not in
\* the second's shown set.
C5_DiffAfterRequireUpdate ==
    [][(ret.op = "require_update" /\ Reflowed') =>
         /\ \A w \in LastArranged \ Keys(map') : w \in ret'.hidden
         /\ \A w \in LastArranged \cap Keys(map') : w \notin ret'.shown]_vars

\* C6 (a reflow whose arrangement raises): map, regions and widgets hold the
\* values they had before the call.
C6_FailedReflowKeepsArrangement ==
    [][ReflowFailed' => map' = map /\ regions' = regions /\ widgets' = widgets]_vars

\* C6's case: a reflow raised over an arrangement of several widgets
C6_Witness == ReflowFailed /\ Len(map) > 1 /\ DOMAIN regions = Keys(map)

\* C7 (no partial state after a failed reflow): map, regions, widgets, size and
\* the cuts are those of before the call, and render() returns what it returned
\* before.
C7_FailedReflowKeepsState ==
    [][ReflowFailed' =>
         /\ map' = map /\ regions' = regions /\ widgets' = widgets
         /\ size' = size
         /\ Cuts' = Cuts
         /\ FullRenderNow' = FullRenderNow]_vars

C9_LineWidth ==
    Rendered =>
        \A i \in 1..Len(ret.lines) :
            CellLength(ret.lines[i]) =
                IF ret.crop = None THEN size.width ELSE Value(ret.crop).width

\* the cut lists are well formed: a row for every screen row, each from 0 to
\* the screen width and strictly increasing
CutsWellFormed(cuts) ==
    /\ Len(cuts) = size.height
    /\ \A row \in 1..Len(cuts) :
         /\ cuts[row] # <<>>
         /\ cuts[row][1] = 0
         /\ cuts[row][Len(cuts[row])] = size.width
         /\ \A k \in 1..(Len(cuts[row]) - 1) : cuts[row][k] < cuts[row][k + 1]
\* row `row` of cuts holds both x-extents of region r
HoldsExtents(cuts, row, r) ==
    /\ \E k \in 1..Len(cuts[row]) : cuts[row][k] = r.x
    /\ \E k \in 1..Len(cuts[row]) : cuts[row][k] = r.x + r.width

LookedUp(op) == ret.op = op
\* the entries of map whose clipped region holds (x, y)
Covering(x, y) == {i \in 1..Len(map) : Contains(ClippedRegion(map[i]), x, y)}

Supplier(lines, x, y) ==
    IF OutCell(lines, x, y) = None THEN None ELSE Some(Value(OutCell(lines, x, y))[1])

\* C12 (hit-testing agrees with rendering): for a screen cell (x, y) the widget
\* get_widget_at(x, y) returns is the widget whose lines supply cell (x, y) of
\* render(), and get_widget_at raises NoWidget only for a cell render leaves
\* unpainted.
C12_HitMatchesRender ==
    ( /\ LookedUp("get_widget_at")
      /\ <<ret.arg[1], ret.arg[2]>> \in ScreenCells
      /\ ~FullRenderNow.raised )
    => Supplier(FullRenderNow.lines, ret.arg[1], ret.arg[2])
         = IF ret.raised THEN None ELSE Some(ret.value.widget)

\* C13 (lookup miss): get_offset(w) and get_widget_region(w) return
\* map[w].region.origin and map[w].region when w is in map and raise NoWidget
\* when it is not; either way map, regions, widgets, size, the cuts cache and
\* the require_update flag are unchanged.
C13_Lookup ==
    [][(ret'.op \in {"get_offset", "get_widget_region"}) =>
         /\ ret'.arg \in Keys(map) =>
              /\ ~ret'.raised
              /\ ret'.value = IF ret'.op = "get_offset"
                              THEN RegionOrigin(Get(map, ret'.arg).region)
                              ELSE Get(map, ret'.arg).region
         /\ ret'.arg \notin Keys(map) => ret'.raised /\ ret'.error = "NoWidget"
         /\ UNCHANGED <<map, regions, widgets, size, _cuts, _require_update>>]_vars

\* C13's case: a widget of the last arrangement looked up after require_update
\* emptied the map
C13_Witness == LookedUp("get_widget_region") /\ ret.raised /\ ret.arg \in DOMAIN regions

\* the style at local column x of local row y of lines, None (the null style)
\* outside them
StyleOfLines(lines, x, y) ==
    IF y < 0 \/ y >= Len(lines) THEN None
    ELSE IF x < 0 \/ x >= CellLength(lines[y + 1]) THEN None
    ELSE Some(Cells(lines[y + 1])[x + 1][1])

\* the style get_style_at is to answer for the widget get_widget_at finds
StyleOfHit(hit, x, y) ==
    IF hit = None THEN None
    ELSE IF Value(hit).widget \notin DOMAIN regions THEN None
    ELSE StyleOfLines(GetLines(Value(hit).widget), x - Value(hit).region.x,
                      y - Value(hit).region.y)

\* C14 (get_style_at never raises): it returns the null style when no widget is
\* under (x, y), when the widget is not in regions and when the local row or
\* column lies outside the lines the widget returned (fewer lines than the
\* region's height included), and the style of the segment covering the local
\* column otherwise.
C14_StyleAt ==
    LookedUp("get_style_at") =>
        /\ ~ret.raised
        /\ ret.style = StyleOfHit(get_widget_at(ret.arg[1], ret.arg[2]),
                                  ret.arg[1], ret.arg[2])

\* the operations C15 calls read-only
ReadOnlyOps ==
    {"render", "update_widget", "get_widget_at", "get_style_at", "get_offset",
     "get_widget_region"}
\* a step of a read-only operation leaves the arrangement and what the widgets
\* report alone, and clears the render cache of no widget but update_widget's
ReadOnlyFrame ==
    /\ UNCHANGED <<map, regions, widgets, size, _require_update>>
    /\ UNCHANGED <<wsize, visible, transparent>>
    /\ ret'.op = "update_widget" => ret'.cleared \subseteq {ret'.widget}

\* C15 (read-only operations): render, update_widget, get_widget_at,
\* get_style_at, get_offset and get_widget_region leave map, regions, widgets,
\* size and the require_update flag unchanged; the only widget mutation is
\* clear_render_cache on update_widget's widget, called only when update_widget
\* returns a patch.
C15_ReadOnly ==
    [][(ret'.op \in ReadOnlyOps) =>
         /\ ReadOnlyFrame
         /\ (ret'.op = "update_widget" /\ ret'.cleared # {})
              => ~ret'.raised /\ ret'.update # None]_vars

\* C16 (a pending layout update is never lost): the require_update flag is
\* cleared only by a step in which a reflow ran to completion, so a request made
\* while the screen size is empty or while reflow raises stays pending until a
\* reflow succeeds.
C16_UpdateNotLost ==
    [][(_require_update /\ ~_require_update') => ret'.reflow = "done"]_vars

\* C17 (regions agrees with map): in every state reached by reflow,
\* require_update, reset_update, render and update_widget, every widget in map
\* is a key of regions and regions[w] is the pair (map[w].region, map[w].clip).
C17_RegionsAgree ==
    \A w \in Keys(map) :
        /\ w \in DOMAIN regions
        /\ regions[w] = [region |-> Get(map, w).region, clip |-> Get(map, w).clip]

\* C17's case: an arrangement of several widgets, one reaching past its clip,
\* seen after a render or an update that followed the reflow
C17_Witness ==
    /\ ret.op \in {"render", "update_widget", "reset_update"}
    /\ Len(map) >= 3
    /\ \E i \in 1..Len(map) : ClippedRegion(map[i]) # map[i].region

\* C18 (order keys are unique): after every reflow no two widgets in map have
\* the same order, siblings placed with equal z included.
C18_OrdersUnique ==
    Reflowed =>
        \A i, j \in 1..Len(map) : i # j => map[i].order # map[j].order

\* C19 (cut cache coherence): in every reachable state a cached cut list equals
\* the cut list computed from the current map and size, so reflow and
\* require_update leave the cache empty or recomputed and render and
\* update_widget use the cuts of the current arrangement.
C19_CutCache ==
    _cuts # None => Value(_cuts) = ComputeCuts(map, size)

\* C19's case: a render or an update has cached cuts that hold the extents of a
\* widget of the arrangement
C19_Witness ==
    /\ ret.op \in {"render", "update_widget"}
    /\ _cuts # None
    /\ map # <<>>
    /\ \E row \in 1..Len(Value(_cuts)) : Len(Value(_cuts)[row]) > 2

\* C20 (regions is a projection of map): in every reachable state the keys of
\* regions are exactly the keys of map, and update_widget(w) for a widget w that
\* is not in map returns None and does not clear w's render cache, also after
\* require_update() has emptied the map.
C20_RegionsProjectMap ==
    /\ DOMAIN regions = Keys(map)
    /\ (ret.op = "update_widget" /\ ret.widget \notin Keys(map))
          => ~ret.raised /\ ret.update = None /\ ret.cleared = {}

\* t is s with one component appended
Appended(s, t) == Len(t) = Len(s) + 1 /\ SubSeq(t, 1, Len(s)) = s

\* C21 (order tuples descend by appending): after a reflow the root has order
\* (), and the order recorded for a widget placed by W's layout is W's order
\* with the placement's z appended, so a parent's order is a strict prefix of
\* its child's and the parent sorts before (behind) the child.
C21_OrderAppends ==
    Reflowed =>
        /\ "root" \in Keys(map) => Get(map, "root").order = <<>>
        /\ \A W \in Keys(map) : \A sub_widget \in Children(W) \cap Keys(map) :
              /\ Appended(Get(map, W).order, Get(map, sub_widget).order)
              /\ LexLess(Get(map, W).order, Get(map, sub_widget).order)

\* the scenes that give the arrangement in map for the root's size
LastScenes == {scene \in Scenes : Arrangement[scene, wsize["root"]].map = map}
\* the region of W before its style displacement (the R of add_widget)
Undisplaced(scene, W) == TranslateBack(Get(map, W).region, scene.offset[W])
\* the widgets of map that W's layout placed
PlacedBy(W) == Children(W) \cap Keys(map)

\* C22 (clip inheritance): after a reflow the root's clip is the root's size
\* region and every other widget's clip is its parent's clip intersected with
\* its parent's undisplaced region; so a clip lies within the parent's clip, and
\* region intersected with clip lies within the root region.
C22_ClipInheritance ==
    Reflowed => \A scene \in LastScenes :
        /\ Get(map, "root").clip = SizeRegion(wsize["root"])
        /\ \A W \in Keys(map) : \A sub_widget \in PlacedBy(W) :
              /\ Get(map, sub_widget).clip
                    = Intersection(Get(map, W).clip, Undisplaced(scene, W))
              /\ RegionIn(Get(map, sub_widget).clip, Get(map, W).clip)
        /\ \A i \in 1..Len(map) :
              RegionIn(ClippedRegion(map[i]), SizeRegion(wsize["root"]))

\* C22's case: a displaced widget with a child whose clip is narrower than the
\* widget's own
C22_Witness ==
    /\ Reflowed
    /\ \E scene \in LastScenes : \E W \in Keys(map) : \E sub_widget \in PlacedBy(W) :
          /\ scene.offset[W] # ORIGIN
          /\ Get(map, sub_widget).clip # Get(map, W).clip
          /\ ClippedRegion(Get(map, sub_widget)) # Get(map, sub_widget).region

\* the widget whose layout places w
ParentOf(w) == CHOOSE W \in Widgets : w \in Children(W)
\* the local sub_region of the placement of w in the scene
SubRegion(scene, w) ==
    LET placements == Value(scene.layout[ParentOf(w)])
    IN  placements[CHOOSE i \in 1..Len(placements) : placements[i].widget = w].region

RECURSIVE ArrangedAt(_, _)
\* the region R a widget is arranged at as C23 states it: the root at its size
\* region, a child at sub_region + R.origin - S of its parent's R and scroll S
ArrangedAt(scene, w) ==
    IF w = "root"
    THEN SizeRegion(wsize["root"])
    ELSE TranslateBack(Translate(SubRegion(scene, w),
                                 RegionOrigin(ArrangedAt(scene, ParentOf(w)))),
                       scene.scroll[ParentOf(w)])

\* C23 (child placement): for a widget W arranged at R with style displacement
\* D and scroll S the region stored for W is R + D, and each child placed at a
\* local sub_region is arranged at sub_region + R.origin - S, from the
\* undisplaced R: D does not move the children and S does not move W itself.
C23_ChildPlacement ==
    Reflowed => \A scene \in LastScenes : \A W \in Keys(map) :
        Get(map, W).region = Translate(ArrangedAt(scene, W), scene.offset[W])

\* C23's case: a displaced and scrolled widget with a child in the arrangement
C23_Witness ==
    /\ Reflowed
    /\ \E scene \in LastScenes : \E W \in Keys(map) :
          /\ PlacedBy(W) # {}
          /\ scene.offset[W] # ORIGIN
          /\ scene.scroll[W] # ORIGIN

RECURSIVE DescendantsOf(_)
\* the widgets of map placed by W's layout or by the layout of one of them
DescendantsOf(W) == PlacedBy(W) \cup UNION {DescendantsOf(w) : w \in PlacedBy(W)}

RECURSIVE UnionAll(_, _)
\* the union of a region with every region of a set
UnionAll(r, S) ==
    IF S = {} THEN r
    ELSE LET o == CHOOSE o \in S : TRUE
         IN  UnionAll(Union(r, o), S \ {o})

\* C24 (virtual size): after a reflow map[W].virtual_size is the size of the
\* union of W's own region with the regions of all of W's descendants, not only
\* its direct children; for a widget without layout it is the size of its region.
C24_VirtualSize ==
    Reflowed => \A scene \in LastScenes : \A W \in Keys(map) :
        /\ Get(map, W).virtual_size
              = RegionSize(UnionAll(Get(map, W).region,
                                    {Get(map, w).region : w \in DescendantsOf(W)}))
        /\ scene.layout[W] = None
              => Get(map, W).virtual_size = RegionSize(Get(map, W).region)

\* the members of a cut list
CutSet(row_cuts) == {row_cuts[i] : i \in 1..Len(row_cuts)}
\* the rows render paints for a render: `zip(render_region.y_range, lines)`
PaintedRows(render_region, lines) ==
    {render_region.y + k - 1 : k \in 1..Min(Len(lines), render_region.height)}
\* row y is a row of cuts and holds both x-extents of the render region
RowFits(cuts, render_region, y) ==
    /\ 0 <= y /\ y < size.height /\ y < Len(cuts)
    /\ render_region.x \in CutSet(cuts[y + 1])
    /\ render_region.x + render_region.width \in CutSet(cuts[y + 1])
\* the precondition for one render of _get_renders
RenderFits(cuts, r) ==
    ~r.raised =>
        \A y \in PaintedRows(Intersection(r.region, r.clip), r.lines) :
            RowFits(cuts, Intersection(r.region, r.clip), y)

\* C25 (renderer precondition): after every reflow(root, size), root.size
\* different from size included, for every widget render visits each row y of
\* its render region is a row of cuts (0 <= y < size.height) and both x-extents
\* of the render region are members of cuts[y].
C25_RendererPrecondition ==
    Reflowed =>
        \A i \in 1..Len(_get_renders) : RenderFits(Cuts, Value(_get_renders[i]))

\* the last handler ran refresh_layout with a reflow that succeeded
Refreshed == ret.op \in {"on_resize", "on_idle"} /\ ret.reflow = "done"
\* the positions of the posts of this event to w
PostsTo(event, w) ==
    {i \in 1..Len(ret.posted) : ret.posted[i].event = event /\ ret.posted[i].widget = w}
\* how many posts of this event w is to get
Expected(w, ws) == IF w \in ws THEN 1 ELSE 0

\* C26 (refresh_layout notifications): for one successful reflow every widget in
\* hidden is posted exactly one Hide, every widget in shown exactly one Show,
\* every widget in shown or resized exactly one Resize carrying its unclipped
\* region size and no other widget a Resize; every widget in map has its size
\* updated to its unclipped region size before its Resize is posted, so that
\* afterwards w.size = map[w].region.size for every w in map; app.refresh is
\* requested after the notifications.
C26_Notifications ==
    Refreshed =>
        /\ \A w \in ret.hidden : Cardinality(PostsTo("Hide", w)) = 1
        /\ \A w \in ret.shown : Cardinality(PostsTo("Show", w)) = 1
        /\ \A w \in Widgets :
              Cardinality(PostsTo("Resize", w)) = Expected(w, ret.shown \cup ret.resized)
        /\ \A w \in Keys(map) :
              /\ Cardinality(PostsTo("_update_size", w)) = 1
              /\ wsize[w] = RegionSize(Get(map, w).region)
              /\ \A i \in PostsTo("Resize", w) :
                    /\ ret.posted[i].size = RegionSize(Get(map, w).region)
                    /\ \E j \in PostsTo("_update_size", w) :
                          j < i /\ ret.posted[j].size = ret.posted[i].size
        /\ ret.posted[Len(ret.posted)].event = "app.refresh"
        /\ \A i \in 1..(Len(ret.posted) - 1) : ret.posted[i].event # "app.refresh"

\* C26's case: a refresh that showed a widget and resized another, one of them
\* reaching past its clip
C26_Witness ==
    /\ Refreshed
    /\ ret.shown # {} /\ ret.resized # {}
    /\ \E i \in 1..Len(map) : ClippedRegion(map[i]) # map[i].region

\* the last handler displayed a patch
Displayed == ret.op = "handle_update" /\ ~ret.raised /\ ret.update # None
\* the lines and the region of the patch displayed
PatchLines == Value(ret.update).lines
PatchRegion == Value(ret.update).region

RECURSIVE PerLine(_, _, _, _)
\* the per-line operations of C27 from line i on: a move to (x, y + i) followed
\* by the segments of line i, counting i from 0
PerLine(L, x, y, i) ==
    IF i > Len(L) - 1 THEN <<>>
    ELSE <<MoveTo(x, y + i)>> \o [k \in 1..Len(L[i + 1]) |-> SegmentItem(L[i + 1][k])]
         \o PerLine(L, x, y, i + 1)

\* the items emitted that are neither the home code nor a new line
IsOperation(item) == item.kind \in {"move_to", "segment"}
\* the positions of the items of this kind
Emitted(kind) == {i \in 1..Len(ret.emitted) : ret.emitted[i].kind = kind}

\* C27 as claimed (patch output order): rendering a patch with region (x, y, w,
\* h) and lines L emits, for each i in order 0..len(L)-1, a cursor move to
\* (x, y + i) followed by the segments of line i, nothing else between or before
\* these operations, and no new line after the final line.
C27_PatchOrderClaimed ==
    Displayed => ret.emitted = PerLine(PatchLines, PatchRegion.x, PatchRegion.y, 0)

\* C27 as amended: the patch emits a cursor home first and only there, then for
\* each i in order a cursor move to (x, y + i) followed by the segments of line
\* i, and one new line after every line but the last, each followed at once by
\* the next cursor move; no new line follows the final line.
C27_PatchOrder ==
    Displayed =>
        /\ Emitted("home") = {1}
        /\ SelectSeq(ret.emitted, IsOperation)
              = PerLine(PatchLines, PatchRegion.x, PatchRegion.y, 0)
        /\ Cardinality(Emitted("new_line")) = Max(Len(PatchLines) - 1, 0)
        /\ \A i \in Emitted("new_line") :
              i < Len(ret.emitted) /\ ret.emitted[i + 1].kind = "move_to"
        /\ Cardinality(Emitted("move_to")) = Len(PatchLines)

\* C27's case: a patch of two lines, one of them of several segments
C27_Witness ==
    /\ Displayed
    /\ Len(PatchLines) = 2
    /\ \E i \in 1..Len(PatchLines) : Len(PatchLines[i]) >= 2

====
